---------------------------- MODULE Spec2Model ----------------------------
(***************************************************************************)
(* A model of the helper functions of Chile_Wildfire_2024/functions.ipynb: *)
(* generate_geographical_subset, select_channels_for_rgb, normalize and    *)
(* visualize_pcolormesh.                                                   *)
(*                                                                         *)
(* Objects (xarray.DataArray grids) live on a heap and are named by        *)
(* references, as Python names are: a call receives references, and what   *)
(* the library calls return are new objects appended to the heap.          *)
(*                                                                         *)
(* Coordinates are binary floating-point numbers of reduced precision: a   *)
(* coordinate is an integer number of quanta (2^-QuantumBits degree) and   *)
(* every arithmetic result is rounded to Precision significant bits, ties  *)
(* to even, as IEEE-754 arithmetic rounds to 24 or 53 bits.                *)
(*                                                                         *)
(* The values of an array are exact ratios n/d, with not-a-number and the  *)
(* infinities for what a division by zero gives.                           *)
(***************************************************************************)
EXTENDS Integers, Sequences, FiniteSets, TLC

VARIABLES
    heap,       \* the objects: a sequence of grids, a reference is an index
    orig,       \* the caller's objects as they were before any call
    G,          \* the caller's grid (a reference)
    bands,      \* the caller's band set: channel name -> reference
    call,       \* the arguments of the running experiment
    out,        \* what the last call returned
    out2,       \* what the call repeated on its own result returned
    pc,         \* ready / called / recalled
    ncalls,     \* calls made in a session
    gcf,        \* pyplot's current figure (0: none)
    figs,       \* the figures: a sequence of records
    files,      \* the file system: path -> image
    writes,     \* the images written, in order
    inv         \* the invocations of visualize_pcolormesh

vars == <<heap, orig, G, bands, call, out, out2, pc, ncalls, gcf, figs, files, writes, inv>>

dataVars == <<heap, orig, G, bands, call, out, out2, pc, ncalls>>

plotVars == <<gcf, figs, files, writes, inv>>

-----------------------------------------------------------------------------
(* Bounds of the model. *)

\* significant bits of a coordinate (53 for float64, 24 for float32)
Precision == 10

\* a quantum is 2^-QuantumBits degree
QuantumBits == 2

\* longest latitude axis of an enumerated grid
MaxLat == 2

\* longest longitude axis of an enumerated grid
MaxLon == 2

-----------------------------------------------------------------------------
(* Numbers. *)

RECURSIVE Pow2(_)
Pow2(n) == IF n = 0 THEN 1 ELSE 2 * Pow2(n - 1)

Abs(x) == IF x < 0 THEN -x ELSE x

\* d degrees, in quanta
Deg(d) == d * Pow2(QuantumBits)

RECURSIVE UlpFrom(_, _)
UlpFrom(a, u) == IF a < Pow2(Precision) * u THEN u ELSE UlpFrom(a, 2 * u)

\* the spacing of the representable numbers around x
Ulp(x) == UlpFrom(Abs(x), 1)

Representable(x) == x % Ulp(x) = 0

\* round to nearest, ties to even
Round(x) ==
    LET u  == Ulp(x)
        lo == (x \div u) * u
        hi == lo + u
    IN  IF x = lo THEN x
        ELSE IF x - lo < hi - x THEN lo
        ELSE IF x - lo > hi - x THEN hi
        ELSE IF (lo \div u) % 2 = 0 THEN lo ELSE hi

FAdd(a, b) == Round(a + b)

FSub(a, b) == Round(a - b)

\* C's fmod: exact, with the sign of the dividend
Fmod(a, b) == IF a >= 0 THEN a % b ELSE -((-a) % b)

\* a variant: the remainder left as C's fmod gives it
FModTruncated(a, b) == Fmod(a, b)

\* Python's and numpy's % on floats, for a positive divisor: fmod, and the
\* divisor added to a negative remainder
FMod(a, b) ==
    LET r == Fmod(a, b)
    IN  IF r < 0 THEN FAdd(r, b) ELSE r

\* a variant: the final shift by -180 left out
RemapUnsigned(lon) == FMod(FAdd(lon, Deg(180)), Deg(360))

\* line 127: ((lon + 180) % 360) - 180
Remap(lon) == FSub(FMod(FAdd(lon, Deg(180)), Deg(360)), Deg(180))

\* the remap of every longitude of an axis
RemapAll(lons) == [j \in 1..Len(lons) |-> Remap(lons[j])]

-----------------------------------------------------------------------------
(* Values of a grid: numbers n/d and not-a-number. *)

Num(n) == [k |-> "num", n |-> n, d |-> 1]

NaN == [k |-> "nan", n |-> 0, d |-> 1]

\* plus or minus infinity: n is the sign
Inf(sign) == [k |-> "inf", n |-> sign, d |-> 1]

Sign(x) == IF x < 0 THEN -1 ELSE IF x > 0 THEN 1 ELSE 0

RECURSIVE Gcd(_, _)
Gcd(a, b) == IF b = 0 THEN a ELSE Gcd(b, a % b)

\* the number n/d in lowest terms, d > 0
Ratio(n, d) ==
    LET g == Gcd(Abs(n), Abs(d))
    IN  [k |-> "num", n |-> Sign(d) * (n \div g), d |-> Abs(d) \div g]

\* a < b, false when either is not-a-number
Less(a, b) ==
    CASE a.k = "nan" \/ b.k = "nan" -> FALSE
      [] a.k = "inf" /\ b.k = "inf" -> a.n < b.n
      [] a.k = "inf" -> a.n < 0
      [] b.k = "inf" -> b.n > 0
      [] OTHER -> a.n * b.d < b.n * a.d

\* a - b
Minus(a, b) ==
    CASE a.k = "nan" \/ b.k = "nan" -> NaN
      [] a.k = "inf" /\ b.k = "inf" -> IF a.n = b.n THEN NaN ELSE a
      [] a.k = "inf" -> a
      [] b.k = "inf" -> Inf(0 - b.n)
      [] OTHER -> Ratio(a.n * b.d - b.n * a.d, a.d * b.d)

\* a variant: a zero divisor gives 0
DivideZeroIsZero(a, b) ==
    CASE a.k = "nan" \/ b.k = "nan" -> NaN
      [] a.k = "inf" /\ b.k = "inf" -> NaN
      [] a.k = "inf" -> IF b.n < 0 THEN Inf(0 - a.n) ELSE a
      [] b.k = "inf" -> Num(0)
      [] b.n = 0 -> Num(0)
      [] OTHER -> Ratio(a.n * b.d, a.d * b.n)

\* a / b on arrays: a zero divisor gives not-a-number (0/0) or an infinity
\* and raises nothing
Divide(a, b) ==
    CASE a.k = "nan" \/ b.k = "nan" -> NaN
      [] a.k = "inf" /\ b.k = "inf" -> NaN
      [] a.k = "inf" -> IF b.n < 0 THEN Inf(0 - a.n) ELSE a
      [] b.k = "inf" -> Num(0)
      [] b.n = 0 -> IF a.n = 0 THEN NaN ELSE Inf(Sign(a.n))
      [] OTHER -> Ratio(a.n * b.d, a.d * b.n)

-----------------------------------------------------------------------------
(* Grids. *)

Range(s) == {s[i] : i \in 1..Len(s)}

RECURSIVE SeqsUpTo(_, _)
SeqsUpTo(S, n) ==
    IF n = 0 THEN {<<>>}
    ELSE LET shorter == SeqsUpTo(S, n - 1)
         IN  shorter \cup {Append(s, x) : s \in {t \in shorter : Len(t) = n - 1}, x \in S}

\* the elements of s at the indices in I, in order
RECURSIVE Take(_, _, _)
Take(s, I, i) ==
    IF i > Len(s) THEN <<>>
    ELSE IF i \in I THEN <<s[i]>> \o Take(s, I, i + 1)
    ELSE Take(s, I, i + 1)

\* a grid whose value at (i, j) names the position
Field(lat, lon) ==
    [latitude  |-> lat,
     longitude |-> lon,
     values    |-> [i \in 1..Len(lat) |-> [j \in 1..Len(lon) |-> Num(10 * i + j)]]]

\* a variant: the coordinates of the object itself replaced
AssignCoordsInPlace(h, ref, lon) ==
    [heap |-> [h EXCEPT ![ref].longitude = lon], ref |-> ref]

\* DataArray.assign_coords(longitude=...): a new object, the old one kept
AssignCoords(h, ref, lon) ==
    [heap |-> Append(h, [h[ref] EXCEPT !.longitude = lon]), ref |-> Len(h) + 1]

\* a variant: the upper bounds inclusive
InBoxInclusive(g, i, j, latmin, latmax, lonmin, lonmax) ==
    /\ g.latitude[i] <= latmax
    /\ g.latitude[i] > latmin
    /\ g.longitude[j] <= lonmax
    /\ g.longitude[j] > lonmin

\* the condition of line 128, at latitude index i and longitude index j
InBox(g, i, j, latmin, latmax, lonmin, lonmax) ==
    /\ g.latitude[i] < latmax
    /\ g.latitude[i] > latmin
    /\ g.longitude[j] < lonmax
    /\ g.longitude[j] > lonmin

\* DataArray.where(cond, drop=True): along each dimension the labels where
\* cond holds somewhere are kept; what is kept and fails cond becomes NaN
WhereDrop(h, ref, latmin, latmax, lonmin, lonmax) ==
    LET g    == h[ref]
        nlat == Len(g.latitude)
        nlon == Len(g.longitude)
        c(i, j) == InBox(g, i, j, latmin, latmax, lonmin, lonmax)
        keepLat == {i \in 1..nlat : \E j \in 1..nlon : c(i, j)}
        keepLon == {j \in 1..nlon : \E i \in 1..nlat : c(i, j)}
        masked  == [i \in 1..nlat |-> [j \in 1..nlon |->
                       IF c(i, j) THEN g.values[i][j] ELSE NaN]]
        rows    == Take(masked, keepLat, 1)
        new == [latitude  |-> Take(g.latitude, keepLat, 1),
                longitude |-> Take(g.longitude, keepLon, 1),
                values    |-> [i \in 1..Len(rows) |-> Take(rows[i], keepLon, 1)]]
    IN  [heap |-> Append(h, new), ref |-> Len(h) + 1]

GenerateGeographicalSubset(h, xarray, latmin, latmax, lonmin, lonmax, reassign) ==
    LET a == IF reassign
             THEN AssignCoords(h, xarray, RemapAll(h[xarray].longitude))
             ELSE [heap |-> h, ref |-> xarray]
    IN  WhereDrop(a.heap, a.ref, latmin, latmax, lonmin, lonmax)

-----------------------------------------------------------------------------
(* What the experiments leave alone. *)

NoBands == [c \in {} |-> 0]

NoPlot ==
    /\ gcf = 0
    /\ figs = <<>>
    /\ files = <<>>
    /\ writes = <<>>
    /\ inv = <<>>

-----------------------------------------------------------------------------
(* Experiment 1: generate_geographical_subset on one grid and one box, and  *)
(* once more on its own result with the same box and the same reassign.    *)

LatSample == {Deg(-10), Deg(0)}

LonSample == {Deg(350), Deg(355), Deg(0), Deg(5), Deg(10), Deg(-10)}

ExampleLons == <<Deg(350), Deg(355), Deg(0), Deg(5), Deg(10)>>

LatBoxes == {<<Deg(-10), Deg(10)>>, <<Deg(-5), Deg(30)>>}

LonBoxes == {<<Deg(-10), Deg(10)>>, <<Deg(0), Deg(360)>>, <<Deg(-1000), Deg(1000)>>}

\* every representable longitude from -545 to 545 degrees
LonValues ==
    {x \in Deg(-545) .. Deg(545) : Representable(x)}

SubsetCall(latb, lonb, reassign) ==
    [latmin |-> latb[1], latmax |-> latb[2],
     lonmin |-> lonb[1], lonmax |-> lonb[2], reassign |-> reassign]

SubsetInit ==
    /\ \/ \E lat \in SeqsUpTo(LatSample, MaxLat),
             lon \in SeqsUpTo(LonSample, MaxLon) \cup {ExampleLons},
             latb \in LatBoxes, lonb \in LonBoxes, r \in BOOLEAN :
               /\ heap = <<Field(lat, lon)>>
               /\ call = SubsetCall(latb, lonb, r)
       \/ \E x \in LonValues, lonb \in LonBoxes, r \in BOOLEAN :
               /\ heap = <<Field(<<Deg(0)>>, <<x>>)>>
               /\ call = SubsetCall(<<Deg(-10), Deg(10)>>, lonb, r)
    /\ orig = heap
    /\ G = 1
    /\ bands = NoBands
    /\ out = 0
    /\ out2 = 0
    /\ pc = "ready"
    /\ ncalls = 0
    /\ NoPlot

ApplySubset(ref) ==
    GenerateGeographicalSubset(heap, ref, call.latmin, call.latmax,
                               call.lonmin, call.lonmax, call.reassign)

CallSubset ==
    /\ pc = "ready"
    /\ heap' = ApplySubset(G).heap
    /\ out' = ApplySubset(G).ref
    /\ pc' = "called"
    /\ UNCHANGED <<orig, G, bands, call, out2, ncalls, plotVars>>

CallSubsetAgain ==
    /\ pc = "called"
    /\ heap' = ApplySubset(out).heap
    /\ out2' = ApplySubset(out).ref
    /\ pc' = "recalled"
    /\ UNCHANGED <<orig, G, bands, call, out, ncalls, plotVars>>

SubsetNext == CallSubset \/ CallSubsetAgain

SpecSubset == SubsetInit /\ [][SubsetNext]_vars

-----------------------------------------------------------------------------
(* normalize. *)

\* the values of a grid that are numbers (min and max skip not-a-number)
Cells(g) ==
    {g.values[i][j] : i \in 1..Len(g.latitude), j \in 1..Len(g.longitude)}
        \ {NaN}

\* array.min(): an empty array has no minimum (ValueError); an array of
\* not-a-number only has the minimum not-a-number
ArrayMin(g) ==
    IF Cells(g) = {} THEN NaN
    ELSE CHOOSE m \in Cells(g) : \A c \in Cells(g) : ~Less(c, m)

ArrayMax(g) ==
    IF Cells(g) = {} THEN NaN
    ELSE CHOOSE m \in Cells(g) : \A c \in Cells(g) : ~Less(m, c)

Size(g) == Len(g.latitude) * Len(g.longitude)

\* a variant: the divisor is the maximum
NormalizeByMax(h, array) ==
    LET g == h[array]
        array_min == ArrayMin(g)
        array_max == ArrayMax(g)
        new == [g EXCEPT !.values =
                   [i \in 1..Len(g.latitude) |-> [j \in 1..Len(g.longitude) |->
                       Divide(Minus(g.values[i][j], array_min), array_max)]]]
    IN  IF Size(g) = 0
        THEN [heap |-> h, status |-> "ValueError", ref |-> 0]
        ELSE [heap |-> Append(h, new), status |-> "ok", ref |-> Len(h) + 1]

Normalize(h, array) ==
    LET g == h[array]
        array_min == ArrayMin(g)
        array_max == ArrayMax(g)
        new == [g EXCEPT !.values =
                   [i \in 1..Len(g.latitude) |-> [j \in 1..Len(g.longitude) |->
                       Divide(Minus(g.values[i][j], array_min),
                              Minus(array_max, array_min))]]]
    IN  IF Size(g) = 0
        THEN [heap |-> h, status |-> "ValueError", ref |-> 0]
        ELSE [heap |-> Append(h, new), status |-> "ok", ref |-> Len(h) + 1]

-----------------------------------------------------------------------------
(* Experiment 2: normalize on one array, and once more on its own result.  *)

\* most elements of an enumerated array
MaxCells == 3

ArrValues == {-2, 0, 1, 3}

\* a grid of the given shape with the values of the flat sequence flat
Shaped(nlat, nlon, flat) ==
    [latitude  |-> [i \in 1..nlat |-> Deg(i)],
     longitude |-> [j \in 1..nlon |-> Deg(j)],
     values    |-> [i \in 1..nlat |-> [j \in 1..nlon |-> Num(flat[(i - 1) * nlon + j])]]]

Shapes == {s \in (1..2) \X (0..MaxCells) : s[1] * s[2] <= MaxCells}

NoCall == [kind |-> "none"]

NormInit ==
    /\ \E s \in Shapes, flat \in SeqsUpTo(ArrValues, MaxCells) :
          /\ Len(flat) = s[1] * s[2]
          /\ heap = <<Shaped(s[1], s[2], flat)>>
    /\ orig = heap
    /\ G = 1
    /\ bands = NoBands
    /\ call = NoCall
    /\ out = [status |-> "none", ref |-> 0]
    /\ out2 = [status |-> "none", ref |-> 0]
    /\ pc = "ready"
    /\ ncalls = 0
    /\ NoPlot

CallNormalize ==
    /\ pc = "ready"
    /\ heap' = Normalize(heap, G).heap
    /\ out' = [status |-> Normalize(heap, G).status, ref |-> Normalize(heap, G).ref]
    /\ pc' = "called"
    /\ UNCHANGED <<orig, G, bands, call, out2, ncalls, plotVars>>

CallNormalizeAgain ==
    /\ pc = "called"
    /\ out.status = "ok"
    /\ heap' = Normalize(heap, out.ref).heap
    /\ out2' = [status |-> Normalize(heap, out.ref).status,
                ref |-> Normalize(heap, out.ref).ref]
    /\ pc' = "recalled"
    /\ UNCHANGED <<orig, G, bands, call, out, ncalls, plotVars>>

NormNext == CallNormalize \/ CallNormalizeAgain

SpecNorm == NormInit /\ [][NormNext]_vars

-----------------------------------------------------------------------------
(* select_channels_for_rgb. *)

\* Dataset[key]: the grid registered under key, or KeyError
Lookup(b, key) ==
    IF key \in DOMAIN b
    THEN [status |-> "ok", ref |-> b[key]]
    ELSE [status |-> "KeyError", ref |-> 0]

\* a variant: an absent key gives a default instead of failing
SelectChannelsWithDefault(b, red_channel, green_channel, blue_channel) ==
    [status |-> "ok",
     refs   |-> <<Lookup(b, red_channel).ref, Lookup(b, green_channel).ref,
                  Lookup(b, blue_channel).ref>>]

\* the three lookups left to right; the first that fails ends the call
SelectChannelsForRgb(b, red_channel, green_channel, blue_channel) ==
    LET r  == Lookup(b, red_channel)
        g  == Lookup(b, green_channel)
        bl == Lookup(b, blue_channel)
    IN  IF r.status # "ok" \/ g.status # "ok" \/ bl.status # "ok"
        THEN [status |-> "KeyError", refs |-> <<>>]
        ELSE [status |-> "ok", refs |-> <<r.ref, g.ref, bl.ref>>]

-----------------------------------------------------------------------------
(* Experiment 3: select_channels_for_rgb on one band set and three keys.    *)

Keys == {"Oa08", "Oa06", "Oa04"}

TwoGrids ==
    <<Field(<<Deg(0)>>, <<Deg(350), Deg(5)>>),
      Shaped(1, 2, <<1, 3>>)>>

BandSets == UNION {[S -> 1..Len(TwoGrids)] : S \in SUBSET Keys}

SelectInit ==
    /\ heap = TwoGrids
    /\ orig = heap
    /\ G = 1
    /\ bands \in BandSets
    /\ \E r \in Keys, g \in Keys, b \in Keys :
          call = [red_channel |-> r, green_channel |-> g, blue_channel |-> b]
    /\ out = [status |-> "none", refs |-> <<>>]
    /\ out2 = 0
    /\ pc = "ready"
    /\ ncalls = 0
    /\ NoPlot

CallSelect ==
    /\ pc = "ready"
    /\ out' = SelectChannelsForRgb(bands, call.red_channel, call.green_channel,
                                   call.blue_channel)
    /\ pc' = "called"
    /\ UNCHANGED <<heap, orig, G, bands, call, out2, ncalls, plotVars>>

SelectNext == CallSelect

SpecSelect == SelectInit /\ [][SelectNext]_vars

-----------------------------------------------------------------------------
(* Experiment 4: a session of calls of the three functions, each on any    *)
(* object there is: the caller's or an earlier call's result.              *)

\* calls of one session
MaxCalls == 2

SessionGrids ==
    {<<Field(<<Deg(0)>>, <<Deg(350), Deg(5)>>), Shaped(1, 2, <<1, 3>>)>>,
     <<Field(<<Deg(0), Deg(20)>>, <<Deg(-185), Deg(190)>>), Shaped(2, 1, <<0, 0>>)>>}

SessionInit ==
    /\ heap \in SessionGrids
    /\ orig = heap
    /\ G = 1
    /\ bands \in {[k \in {"Oa08", "Oa06"} |-> IF k = "Oa08" THEN 1 ELSE 2],
                  [k \in {"Oa08"} |-> 2]}
    /\ call = NoCall
    /\ out = <<>>
    /\ out2 = 0
    /\ pc = "ready"
    /\ ncalls = 0
    /\ NoPlot

SessionSubset ==
    /\ ncalls < MaxCalls
    /\ \E ref \in 1..Len(heap), lonb \in {<<Deg(-10), Deg(10)>>, <<Deg(-1000), Deg(1000)>>},
          r \in BOOLEAN :
          LET c == SubsetCall(<<Deg(-10), Deg(10)>>, lonb, r)
              s == GenerateGeographicalSubset(heap, ref, c.latmin, c.latmax,
                                              c.lonmin, c.lonmax, c.reassign)
          IN  /\ heap' = s.heap
              /\ out' = <<s.ref>>
              /\ call' = [kind |-> "subset", ref |-> ref, reassign |-> r]
    /\ ncalls' = ncalls + 1
    /\ UNCHANGED <<orig, G, bands, out2, pc, plotVars>>

SessionNormalize ==
    /\ ncalls < MaxCalls
    /\ \E ref \in 1..Len(heap) :
          /\ heap' = Normalize(heap, ref).heap
          /\ out' = IF Normalize(heap, ref).status = "ok"
                    THEN <<Normalize(heap, ref).ref>> ELSE <<>>
          /\ call' = [kind |-> "normalize", ref |-> ref, reassign |-> FALSE]
    /\ ncalls' = ncalls + 1
    /\ UNCHANGED <<orig, G, bands, out2, pc, plotVars>>

SessionSelect ==
    /\ ncalls < MaxCalls
    /\ \E r \in Keys, g \in Keys, b \in Keys :
          out' = SelectChannelsForRgb(bands, r, g, b).refs
    /\ call' = [kind |-> "select", ref |-> 0, reassign |-> FALSE]
    /\ ncalls' = ncalls + 1
    /\ UNCHANGED <<heap, orig, G, bands, out2, pc, plotVars>>

SessionNext == SessionSubset \/ SessionNormalize \/ SessionSelect

SpecSession == SessionInit /\ [][SessionNext]_vars

-----------------------------------------------------------------------------
(* visualize_pcolormesh. *)

\* the extent of a map: the plotted data's limits (what pcolormesh leaves),
\* a box, or the whole globe
DataExtent == [view |-> "data", box |-> <<>>]

BoxExtent(lonmin, lonmax, latmin, latmax) ==
    [view |-> "box", box |-> <<lonmin, lonmax, latmin, latmax>>]

GlobalExtent == [view |-> "global", box |-> <<>>]

\* lines 253-254: the box is applied for the projection PlateCarree() only
SetExtent(extent, a) ==
    IF a.projection = "PlateCarree()"
    THEN BoxExtent(a.lonmin, a.lonmax, a.latmin, a.latmax)
    ELSE extent

\* lines 263-264
SetGlobal(extent, a) == IF a.set_global THEN GlobalExtent ELSE extent

\* lines 240-270: the figure the call builds
Figure(a) ==
    [projection |-> a.projection,
     mesh       |-> a.data_array,
     extent     |-> SetGlobal(SetExtent(DataExtent, a), a),
     gridlines  |-> (a.projection = "PlateCarree()") \/ a.set_global,
     colorbar   |-> a.unit,
     title      |-> a.long_name]

\* a variant: a path of the call's own
SavePathFromName(a) == a.long_name

\* line 271: the path savefig is given
SavePath(a) == "wildfire_co_300.png"

\* writing a file replaces what the path held
WriteFile(fs, path, image) ==
    [p \in DOMAIN fs \cup {path} |-> IF p = path THEN image ELSE fs[p]]

-----------------------------------------------------------------------------
(* Experiment 5: invocations of visualize_pcolormesh, one after another or *)
(* interleaved. An invocation builds its figure (lines 240-270), saves     *)
(* pyplot's current figure (line 271) and returns (line 272).              *)

\* invocations of visualize_pcolormesh
MaxRenders == 2

Layers ==
    {[data_array |-> "co", unit |-> "mol m-2", long_name |-> "Carbon monoxide"],
     [data_array |-> "aod", unit |-> "~", long_name |-> "Aerosol optical depth"]}

Projections == {"PlateCarree()", "Mercator()"}

Bounds == {<<-180, 180, -90, 90>>, <<-80, -60, -40, -20>>}

RenderArgs ==
    {[data_array |-> l.data_array, unit |-> l.unit, long_name |-> l.long_name,
      projection |-> p, set_global |-> g,
      lonmin |-> b[1], lonmax |-> b[2], latmin |-> b[3], latmax |-> b[4]] :
        l \in Layers, p \in Projections, g \in BOOLEAN, b \in Bounds}

Idle == [pc |-> "idle", fig |-> 0]

RenderInit ==
    /\ heap = <<>>
    /\ orig = <<>>
    /\ G = 0
    /\ bands = NoBands
    /\ call = NoCall
    /\ out = 0
    /\ out2 = 0
    /\ pc = "ready"
    /\ ncalls = 0
    /\ gcf = 0
    /\ figs = <<>>
    /\ files = <<>>
    /\ writes = <<>>
    /\ inv = [i \in 1..MaxRenders |-> Idle]

\* lines 240-270: plt.figure makes the new figure pyplot's current one
Build(i) ==
    /\ inv[i].pc = "idle"
    /\ \E a \in RenderArgs :
          /\ figs' = Append(figs, [args |-> a, figure |-> Figure(a)])
          /\ inv' = [inv EXCEPT ![i] = [pc |-> "built", fig |-> Len(figs) + 1]]
    /\ gcf' = Len(figs) + 1
    /\ UNCHANGED <<dataVars, files, writes>>

\* line 271: plt.savefig saves pyplot's current figure
Save(i) ==
    /\ inv[i].pc = "built"
    /\ LET image == [fig |-> gcf, figure |-> figs[gcf].figure]
           path  == SavePath(figs[inv[i].fig].args)
       IN  /\ files' = WriteFile(files, path, image)
           /\ writes' = Append(writes, image)
    /\ inv' = [inv EXCEPT ![i].pc = "saved"]
    /\ UNCHANGED <<dataVars, gcf, figs>>

\* line 272
Return(i) ==
    /\ inv[i].pc = "saved"
    /\ inv' = [inv EXCEPT ![i].pc = "returned"]
    /\ UNCHANGED <<dataVars, gcf, figs, files, writes>>

RenderNext == \E i \in 1..MaxRenders : Build(i) \/ Save(i) \/ Return(i)

SpecRender == RenderInit /\ [][RenderNext]_vars

-----------------------------------------------------------------------------
(* Claims about generate_geographical_subset (SpecSubset). *)

\* the grid the caller passed, as it was
In == orig[G]

\* the longitude the filter sees at index j of the input
SeenLon(j) == IF call.reassign THEN Remap(In.longitude[j]) ELSE In.longitude[j]

InsideLat == {i \in 1..Len(In.latitude) :
                 call.latmin < In.latitude[i] /\ In.latitude[i] < call.latmax}

InsideLon == {j \in 1..Len(In.longitude) :
                 call.lonmin < SeenLon(j) /\ SeenLon(j) < call.lonmax}

EmptyGrid == [latitude |-> <<>>, longitude |-> <<>>, values |-> <<>>]

\* C1: the grid returned holds exactly the elements whose latitude and
\* (remapped, when reassign) longitude lie strictly inside the box, with
\* their coordinates and values, in order; nothing outside the box is kept,
\* not even masked; with nothing inside the result is the empty grid; and
\* longitudes 350, 355, 0, 5, 10 with reassign and longitude bounds (-10, 10)
\* leave the longitudes -5, 0, 5.
C1_SubsetIsStrictInterior ==
    pc # "ready" =>
        /\ IF InsideLat = {} \/ InsideLon = {}
           THEN heap[out] = EmptyGrid
           ELSE /\ heap[out].latitude = Take(In.latitude, InsideLat, 1)
                /\ heap[out].longitude =
                       Take([j \in 1..Len(In.longitude) |-> SeenLon(j)], InsideLon, 1)
                /\ heap[out].values =
                       [a \in 1..Cardinality(InsideLat) |->
                           Take(Take(In.values, InsideLat, 1)[a], InsideLon, 1)]
        /\ \A a \in 1..Len(heap[out].latitude), b \in 1..Len(heap[out].longitude) :
              heap[out].values[a][b] # NaN
        /\ (/\ In.longitude = ExampleLons
            /\ call.reassign
            /\ call.lonmin = Deg(-10) /\ call.lonmax = Deg(10)
            /\ InsideLat # {})
           => heap[out].longitude = <<Deg(-5), Deg(0), Deg(5)>>

C1_Witness ==
    /\ pc = "called"
    /\ In.longitude = ExampleLons
    /\ In.latitude = <<Deg(-10), Deg(0)>>
    /\ call.reassign
    /\ call.lonmin = Deg(-10) /\ call.lonmax = Deg(10)
    /\ call.latmin = Deg(-10) /\ call.latmax = Deg(10)
    /\ heap[out].longitude = <<Deg(-5), Deg(0), Deg(5)>>
    /\ heap[out].latitude = <<Deg(0)>>

\* C2 as stated: subsetting the result again with the same box (and the same
\* reassign) returns a grid identical to the result.
C2_SubsetIdempotent ==
    pc = "recalled" => heap[out2] = heap[out]

\* C2 as amended: subsetting the result again with the same box and the same
\* reassign returns an identical grid when reassign is false, and when
\* reassign is true and no longitude of the result is 180.
C2_SubsetIdempotentBut180 ==
    (/\ pc = "recalled"
     /\ (call.reassign => Deg(180) \notin Range(heap[out].longitude)))
        => heap[out2] = heap[out]

C2_Witness ==
    /\ pc = "recalled"
    /\ call.reassign
    /\ In.longitude = ExampleLons
    /\ Len(heap[out].longitude) = 3
    /\ Len(heap[out].latitude) = 1
    /\ heap[out2] = heap[out]

\* the grid assign_coords made in the first call, and in the second
Remapped == heap[out - 1]

RemappedAgain == heap[out2 - 1]

\* C3 as stated: with reassign every longitude returned lies in [-180, 180);
\* the remap maps every value of [-180, 180) to itself; the remap applied
\* twice gives what it gives applied once.
C3_RemapHalfOpen ==
    (pc # "ready" /\ call.reassign) =>
        /\ \A j \in 1..Len(heap[out].longitude) :
              Deg(-180) <= heap[out].longitude[j] /\ heap[out].longitude[j] < Deg(180)
        /\ \A j \in 1..Len(In.longitude) :
              (Deg(-180) <= In.longitude[j] /\ In.longitude[j] < Deg(180))
                  => Remapped.longitude[j] = In.longitude[j]
        /\ pc = "recalled" =>
              RemappedAgain.longitude = heap[out].longitude

\* C3 as amended: with reassign every longitude of the remapped grid, and so
\* of the grid returned, lies in [-180, 180], and in [-180, 180) when the
\* input longitude is at least -180; the remap maps a value of [-180, 180)
\* to itself when lon + 180 is computed without rounding; the remap applied
\* twice gives what it gives applied once wherever that is not 180.
C3_RemapClosedRange ==
    (pc # "ready" /\ call.reassign) =>
        /\ \A j \in 1..Len(In.longitude) :
              /\ Deg(-180) <= Remapped.longitude[j]
              /\ Remapped.longitude[j] <= Deg(180)
              /\ In.longitude[j] >= Deg(-180) => Remapped.longitude[j] < Deg(180)
              /\ (/\ Deg(-180) <= In.longitude[j]
                  /\ In.longitude[j] < Deg(180)
                  /\ Representable(In.longitude[j] + Deg(180)))
                    => Remapped.longitude[j] = In.longitude[j]
        /\ Range(heap[out].longitude) \subseteq Range(Remapped.longitude)
        /\ pc = "recalled" =>
              \A j \in 1..Len(heap[out].longitude) :
                  heap[out].longitude[j] # Deg(180)
                      => RemappedAgain.longitude[j] = heap[out].longitude[j]

C3_Witness ==
    /\ pc = "recalled"
    /\ call.reassign
    /\ Len(In.longitude) = 1
    /\ In.longitude[1] < Deg(-180)
    /\ heap[out].longitude = <<Deg(180)>>
    /\ RemappedAgain.longitude = <<Deg(-180)>>

-----------------------------------------------------------------------------
(* Claims about normalize (SpecNorm). The arrays of SpecNorm hold integers. *)

Positions(g) == (1..Len(g.latitude)) \X (1..Len(g.longitude))

InValues == {In.values[p[1]][p[2]].n : p \in Positions(In)}

InMin == CHOOSE m \in InValues : \A v \in InValues : m <= v

InMax == CHOOSE m \in InValues : \A v \in InValues : m >= v

NonConstant == Cardinality(InValues) > 1

Constant == Cardinality(InValues) = 1

SameShape(g, h) == g.latitude = h.latitude /\ g.longitude = h.longitude

C6_ConstantGivesNaN ==
    (pc # "ready" /\ Constant) =>
        /\ out.status = "ok"
        /\ SameShape(heap[out.ref], In)
        /\ \A p \in Positions(In) : heap[out.ref].values[p[1]][p[2]] = NaN

C6_Witness ==
    /\ pc = "called"
    /\ Constant
    /\ Size(In) = 2
    /\ InMin = 3
    /\ out.status = "ok"
    /\ \A p \in Positions(In) : heap[out.ref].values[p[1]][p[2]] = NaN

-----------------------------------------------------------------------------
(* The claim about select_channels_for_rgb (SpecSelect). *)

\* C7: with the three keys in the band set the call returns the grids under
\* them in the order red, green, blue; with any of them absent it fails with
\* KeyError and returns nothing.
C7_SelectReturnsTripleOrKeyError ==
    pc = "called" =>
        IF {call.red_channel, call.green_channel, call.blue_channel} \subseteq DOMAIN bands
        THEN out = [status |-> "ok",
                    refs   |-> <<bands[call.red_channel], bands[call.green_channel],
                                 bands[call.blue_channel]>>]
        ELSE out = [status |-> "KeyError", refs |-> <<>>]

C7_Witness ==
    /\ pc = "called"
    /\ call.red_channel \in DOMAIN bands
    /\ call.green_channel = call.red_channel
    /\ call.blue_channel \notin DOMAIN bands
    /\ out = [status |-> "KeyError", refs |-> <<>>]

-----------------------------------------------------------------------------
(* The claim about visualize_pcolormesh's file (SpecRender). *)

OutputFile == "wildfire_co_300.png"

\* C8: whatever the arguments, the only file there ever is is
\* wildfire_co_300.png, every invocation past savefig has written it, and
\* it holds the image written last.
C8_OneFileLastWriteWins ==
    /\ DOMAIN files \subseteq {OutputFile}
    /\ Len(writes) = Cardinality({i \in 1..MaxRenders : inv[i].pc \in {"saved", "returned"}})
    /\ writes # <<>> =>
          /\ DOMAIN files = {OutputFile}
          /\ files[OutputFile] = writes[Len(writes)]

\* two invocations interleaved: one has returned, the other has built its
\* figure and not yet saved, and the file holds the other one's figure
C8_Witness ==
    \E i \in 1..MaxRenders, j \in 1..MaxRenders :
        /\ i # j
        /\ inv[i].pc = "returned"
        /\ inv[j].pc = "built"
        /\ figs[inv[i].fig].args.long_name # figs[inv[j].fig].args.long_name
        /\ files[OutputFile].fig = inv[j].fig
        /\ files[OutputFile].figure.title = figs[inv[j].fig].args.long_name

-----------------------------------------------------------------------------
(* The claim about purity (SpecSession). *)

\* C9: after any sequence of calls of the three functions, every object the
\* caller had is as it was (coordinates, shape and values), the caller's
\* grid included after a subset with reassign.
C9_ArgumentsUnchanged ==
    /\ Len(heap) >= Len(orig)
    /\ \A r \in 1..Len(orig) : heap[r] = orig[r]

\* the caller's grid has been subset with reassign, which changed longitudes
C9_Witness ==
    /\ call.kind = "subset"
    /\ call.ref = G
    /\ call.reassign
    /\ ncalls = MaxCalls
    /\ \E r \in (Len(orig) + 1)..Len(heap) :
          /\ heap[r].latitude = orig[G].latitude
          /\ heap[r].longitude = RemapAll(orig[G].longitude)
          /\ heap[r].longitude # orig[G].longitude

-----------------------------------------------------------------------------
(* The claim about visualize_pcolormesh's extent (SpecRender). *)

\* C10: for every projection, the axes returned show the caller's box
\* [lonmin, lonmax, latmin, latmax] when set_global is False and the globe
\* when set_global is True.
C10_ExtentFollowsArguments ==
    \A i \in 1..MaxRenders :
        inv[i].pc = "returned" =>
            LET a == figs[inv[i].fig].args
                e == figs[inv[i].fig].figure.extent
            IN  IF a.set_global
                THEN e = GlobalExtent
                ELSE e = BoxExtent(a.lonmin, a.lonmax, a.latmin, a.latmax)

=============================================================================
